---- MODULE Spec2Model ----
(***************************************************************************)
(* Motion detector: the per-frame detection loop (camera.py), the          *)
(* notification manager with its cooldown (notifier.py), the configuration *)
(* validation (config.py) and the program's entry point (__init__.py).     *)
(*                                                                         *)
(* Time is the wall clock in whole seconds since the program started.      *)
(* The variables motion_detected, motion_areas, contours, notify_called,   *)
(* notify_result and attempt describe what the latest step did: they are   *)
(* the locals and return values of the latest loop iteration or call; so    *)
(* do evidence, message, smtp_opened and smtp_left_open.                   *)
(***************************************************************************)
EXTENDS Integers, Sequences, FiniteSets, TLC

VARIABLES
    pc,                     \* position of main(): validate, start, run, finally, exited
    Config,                 \* the process-wide Config class attributes
    errors,                 \* the list Config.validate() returned
    exit_status,            \* -1 while the process lives, then its exit status
    cap,                    \* MotionDetector.cap: None, unopened, open, released
    running,                \* MotionDetector.running
    frame_count,            \* MotionDetector.frame_count
    bg_frames,              \* frames applied to MotionDetector.background_subtractor
    camera_index_arg,       \* the camera_index given to MotionDetector(...), or none
    camera_index,           \* MotionDetector.camera_index
    device,                 \* the index given to cv2.VideoCapture by start()
    clock,                  \* datetime.now(), seconds
    last_notification_time, \* NotificationManager.last_notification_time
    read_ret,               \* ret of the latest cap.read(): none, True, False
    contours,               \* contour areas found in the frame of the latest step
    frame_boxes,            \* rectangles the latest step drew into the frame it read
    motion_detected,        \* _detect_motion's flag in the latest step
    motion_areas,           \* _detect_motion's motion_areas in the latest step
    notify_called,          \* the latest step called NotificationManager.notify
    notify_result,          \* what that call returned
    attempt,                \* the SMTP attempt of the latest step: none, ok, or the step that failed
    emit_decision_time,     \* clock at entry of the latest call whose delivery succeeded
    evidence,               \* the frame argument of the latest step's notify call
    message,                \* the message built for the latest step's attempt: none, text, text+image
    smtp_opened,            \* SMTP connections the latest step opened
    smtp_left_open          \* of those, the ones not closed when the step ended

vars == <<pc, Config, errors, exit_status, cap, running, frame_count, bg_frames,
          camera_index_arg, camera_index, device, read_ret, frame_boxes,
          clock, last_notification_time, contours, motion_detected, motion_areas,
          notify_called, notify_result, attempt, emit_decision_time,
          evidence, message, smtp_opened, smtp_left_open>>

cameraVars == <<camera_index_arg, camera_index, device>>
detectorVars == <<cap, running, frame_count, bg_frames, cameraVars>>
notifierVars == <<last_notification_time, notify_called, notify_result, attempt,
                  emit_decision_time, evidence, message, smtp_opened,
                  smtp_left_open>>
frameVars == <<read_ret, contours, motion_detected, motion_areas, frame_boxes>>

----------------------------------------------------------------------------
(* Bounds of the model *)

MaxFrames == 33         \* frames the camera supplies in one run of the main program
MaxClock == 125         \* the clock of the main program stops advancing here
MaxCallerClock == 64    \* the clock stops here when the notifier is called on its own
MaxContours == 3        \* contours per frame when classification is checked alone
MaxArea == 3            \* areas and thresholds when classification is checked alone
MaxCameraIndex == 4     \* camera indexes when the constructor is checked alone

(* Program constants *)

WarmupFrames == 30                  \* camera.py: if self.frame_count < 30
DefaultMinContourArea == 500        \* config.py: MIN_CONTOUR_AREA
DefaultCooldownSeconds == 60        \* config.py: NOTIFICATION_COOLDOWN_SECONDS
NoTime == -1                        \* last_notification_time = None
DefaultCameraIndex == 0             \* config.py: CAMERA_INDEX
NoIndex == -1                       \* camera.py: camera_index: int = None

----------------------------------------------------------------------------
(* config.py *)

Credentials == {"", "secret"}

CredentialFields == {"EMAIL_FROM", "EMAIL_TO", "EMAIL_PASSWORD"}

AllConfigValues(minAreas, cooldowns, cameras) ==
    [CAMERA_INDEX : cameras,
     NOTIFICATION_ENABLED : BOOLEAN,
     EMAIL_ENABLED : BOOLEAN,
     EMAIL_FROM : Credentials,
     EMAIL_TO : Credentials,
     EMAIL_PASSWORD : Credentials,
     MIN_CONTOUR_AREA : minAreas,
     NOTIFICATION_COOLDOWN_SECONDS : cooldowns]

\* The configurations with the default CAMERA_INDEX.
ConfigValues(minAreas, cooldowns) ==
    AllConfigValues(minAreas, cooldowns, {DefaultCameraIndex})

\* The message validate appends for an empty credential.
ErrorMessage(f) ==
    CASE f = "EMAIL_FROM" ->
            "EMAIL_FROM is required when email notifications are enabled"
      [] f = "EMAIL_TO" ->
            "EMAIL_TO is required when email notifications are enabled"
      [] f = "EMAIL_PASSWORD" ->
            "EMAIL_PASSWORD is required when email notifications are enabled"

\* Validation that stops at the first empty credential (an elif chain).
Validate_FirstOnly(cfg) ==
    IF cfg.EMAIL_ENABLED /\ cfg.NOTIFICATION_ENABLED
    THEN IF cfg.EMAIL_FROM = "" THEN <<ErrorMessage("EMAIL_FROM")>>
         ELSE IF cfg.EMAIL_TO = "" THEN <<ErrorMessage("EMAIL_TO")>>
         ELSE IF cfg.EMAIL_PASSWORD = "" THEN <<ErrorMessage("EMAIL_PASSWORD")>>
         ELSE <<>>
    ELSE <<>>

\* Config.validate: one independent `if` per credential, appended in order.
Validate(cfg) ==
    IF cfg.EMAIL_ENABLED /\ cfg.NOTIFICATION_ENABLED
    THEN (IF cfg.EMAIL_FROM = "" THEN <<ErrorMessage("EMAIL_FROM")>> ELSE <<>>)
         \o (IF cfg.EMAIL_TO = "" THEN <<ErrorMessage("EMAIL_TO")>> ELSE <<>>)
         \o (IF cfg.EMAIL_PASSWORD = "" THEN <<ErrorMessage("EMAIL_PASSWORD")>> ELSE <<>>)
    ELSE <<>>

----------------------------------------------------------------------------
(* notifier.py *)

\* What the SMTP conversation of one attempt can do: succeed, fail at one of
\* its steps with an Exception, or be cut by a KeyboardInterrupt.
FailedOutcomes == {"connect", "tls", "login", "send"}

Outcomes == {"ok"} \cup FailedOutcomes \cup {"interrupted"}

\* The comparison turned round: active once the cooldown has elapsed.
IsCooldownActive_Inverted(last, now, cfg) ==
    IF last = NoTime
    THEN FALSE
    ELSE (now - last) > cfg.NOTIFICATION_COOLDOWN_SECONDS

\* The boundary second counted as still inside the cooldown.
IsCooldownActive_Inclusive(last, now, cfg) ==
    IF last = NoTime
    THEN FALSE
    ELSE (now - last) <= cfg.NOTIFICATION_COOLDOWN_SECONDS

\* NotificationManager._is_cooldown_active at clock `now`.
IsCooldownActive(last, now, cfg) ==
    IF last = NoTime
    THEN FALSE
    ELSE (now - last) < cfg.NOTIFICATION_COOLDOWN_SECONDS

\* A call that returns False before the try block: nothing is attempted.
NotSent(last, now) ==
    [ret |-> "False", last |-> last, attempt |-> "none", now |-> now,
     raised |-> FALSE, message |-> "none", opened |-> 0, left_open |-> 0]

\* No call at all in this step.
NotCalled(last, now) ==
    [ret |-> "none", last |-> last, attempt |-> "none", now |-> now,
     raised |-> FALSE, message |-> "none", opened |-> 0, left_open |-> 0]

\* The frames notify can be given: no frame, one cv2.imencode encodes, one
\* whose encoding or attaching raises.
Frames == {"None", "encodable", "unencodable"}

\* Lines 46-77: the message is built; the inner try attaches the JPEG, and
\* its `except Exception` prints a warning and goes on without it.
BuildMessage(frame) == IF frame = "encodable" THEN "text+image" ELSE "text"

\* Lines 80-84: smtplib.SMTP(...) opens the connection unless the connect
\* fails; server.quit() is reached only when starttls, login and send_message
\* all returned.
Opened(outcome) == IF outcome = "connect" THEN 0 ELSE 1

LeftOpen(outcome) == IF outcome \in {"ok", "connect"} THEN 0 ELSE 1

\* The timestamp assigned before the send, so that a failed send keeps it.
Deliver_StampsAttempt(last, now, frame, outcome, dur) ==
    [ret |-> IF outcome = "ok" THEN "True"
             ELSE IF outcome \in FailedOutcomes THEN "False" ELSE "raised",
     last |-> IF outcome = "ok" THEN now + dur ELSE now,
     attempt |-> outcome,
     now |-> now + dur,
     raised |-> outcome \notin ({"ok"} \cup FailedOutcomes),
     message |-> BuildMessage(frame),
     opened |-> Opened(outcome),
     left_open |-> LeftOpen(outcome)]

\* An encoding failure caught by the outer handler: nothing is sent.
Deliver_EncodingAborts(last, now, frame, outcome, dur) ==
    IF frame = "unencodable"
    THEN NotSent(last, now)
    ELSE [ret |-> IF outcome = "ok" THEN "True"
                  ELSE IF outcome \in FailedOutcomes THEN "False" ELSE "raised",
          last |-> IF outcome = "ok" THEN now + dur ELSE last,
          attempt |-> outcome,
          now |-> now + dur,
          raised |-> outcome \notin ({"ok"} \cup FailedOutcomes),
          message |-> BuildMessage(frame),
          opened |-> Opened(outcome),
          left_open |-> LeftOpen(outcome)]

\* The try block of send_email_notification: the delivery takes `dur` seconds;
\* last_notification_time is assigned after server.quit(), from a new
\* datetime.now(); `except Exception` returns False and assigns nothing;
\* a KeyboardInterrupt is not an Exception and leaves the call.
Deliver(last, now, frame, outcome, dur) ==
    [ret |-> IF outcome = "ok" THEN "True"
             ELSE IF outcome \in FailedOutcomes THEN "False" ELSE "raised",
     last |-> IF outcome = "ok" THEN now + dur ELSE last,
     attempt |-> outcome,
     now |-> now + dur,
     raised |-> outcome \notin ({"ok"} \cup FailedOutcomes),
     message |-> BuildMessage(frame),
     opened |-> Opened(outcome),
     left_open |-> LeftOpen(outcome)]

\* NotificationManager.send_email_notification
SendEmailNotification(cfg, last, now, frame, outcome, dur) ==
    IF ~cfg.EMAIL_ENABLED \/ ~cfg.NOTIFICATION_ENABLED
    THEN NotSent(last, now)
    ELSE IF IsCooldownActive(last, now, cfg)
    THEN NotSent(last, now)
    ELSE Deliver(last, now, frame, outcome, dur)

\* notify going to the send whatever the configuration says.
Notify_IgnoresConfig(cfg, last, now, frame, outcome, dur) ==
    IF IsCooldownActive(last, now, cfg)
    THEN NotSent(last, now)
    ELSE Deliver(last, now, frame, outcome, dur)

\* notify trying a failed send once more.
Notify_Retries(cfg, last, now, frame, outcome, dur) ==
    LET r == SendEmailNotification(cfg, last, now, frame, outcome, dur)
    IN  IF r.attempt \in FailedOutcomes
        THEN [r EXCEPT !.opened = @ + 1]
        ELSE r

\* NotificationManager.notify
Notify(cfg, last, now, frame, outcome, dur) ==
    IF ~cfg.NOTIFICATION_ENABLED
    THEN NotSent(last, now)
    ELSE IF cfg.EMAIL_ENABLED
    THEN SendEmailNotification(cfg, last, now, frame, outcome, dur)
    ELSE NotSent(last, now)

----------------------------------------------------------------------------
(* camera.py *)

\* The threshold itself counted as significant.
IsSignificant_Inclusive(area, minArea) == area >= minArea

\* if area > Config.MIN_CONTOUR_AREA
IsSignificant(area, minArea) == area > minArea

\* boxes counts the cv2.rectangle calls of line 87, which draw into `frame`,
\* the array the caller passed in.
NoMotion == [motion_detected |-> FALSE, motion_areas |-> <<>>, boxes |-> 0]

\* The `for contour in contours` loop of _detect_motion, from contour i on.
RECURSIVE DetectLoop(_, _, _, _)
DetectLoop(cs, i, minArea, acc) ==
    IF i > Len(cs)
    THEN acc
    ELSE DetectLoop(cs, i + 1, minArea,
                    IF IsSignificant(cs[i], minArea)
                    THEN [motion_detected |-> TRUE,
                          motion_areas |-> Append(acc.motion_areas, cs[i]),
                          boxes |-> acc.boxes + 1]
                    ELSE acc)

\* MotionDetector._detect_motion on a frame whose contours have areas `cs`.
DetectMotion(cs, minArea) == DetectLoop(cs, 1, minArea, NoMotion)

\* The callback run for every processed frame.
CallbackFires_EveryFrame(detected, hasCallback) == hasCallback

\* if motion_detected and self.on_motion_detected
CallbackFires(detected, hasCallback) == detected /\ hasCallback

\* MotionDetector.__init__, line 21: camera_index or Config.CAMERA_INDEX.
\* None and 0 are the falsy values of the argument.
SelectCamera(arg, cfg) ==
    IF arg = NoIndex \/ arg = 0 THEN cfg.CAMERA_INDEX ELSE arg

\* MotionDetector.stop: if self.cap: self.cap.release()
StopCap(c) == IF c # "None" THEN "released" ELSE c

\* One iteration of the `while self.running` loop of MotionDetector.run is one
\* of the three actions below, by the path it takes.  `delta` is the time
\* cap.read() took, `key` what waitKey gives, `exc` an exception a stage of the
\* iteration raises after the read (none, Exception, KeyboardInterrupt).

\* The failed read answered with `continue`.
ReadFails_Continues(delta) ==
    /\ pc = "run"
    /\ running
    /\ clock + delta <= MaxClock
    /\ clock' = clock + delta
    /\ read_ret' = "False"
    /\ contours' = <<>>
    /\ motion_detected' = FALSE
    /\ motion_areas' = <<>>
    /\ frame_boxes' = 0
    /\ notify_called' = FALSE
    /\ notify_result' = "none"
    /\ attempt' = "none"
    /\ evidence' = "None"
    /\ message' = "none"
    /\ smtp_opened' = 0
    /\ smtp_left_open' = 0
    /\ UNCHANGED <<pc, running, cap, Config, errors, exit_status, frame_count,
                   bg_frames, cameraVars, last_notification_time,
                   emit_decision_time>>

\* Lines 104-108 and 155: the read fails, the loop breaks, run() calls stop().
ReadFails(delta) ==
    /\ pc = "run"
    /\ running
    /\ clock + delta <= MaxClock
    /\ clock' = clock + delta
    /\ running' = FALSE
    /\ cap' = StopCap(cap)
    /\ pc' = "finally"
    /\ read_ret' = "False"
    /\ contours' = <<>>
    /\ motion_detected' = FALSE
    /\ motion_areas' = <<>>
    /\ frame_boxes' = 0
    /\ notify_called' = FALSE
    /\ notify_result' = "none"
    /\ attempt' = "none"
    /\ evidence' = "None"
    /\ message' = "none"
    /\ smtp_opened' = 0
    /\ smtp_left_open' = 0
    /\ UNCHANGED <<Config, errors, exit_status, frame_count, bg_frames,
                   cameraVars, last_notification_time, emit_decision_time>>

\* Lines 104-118: a frame is read while frame_count < 30 after the increment;
\* it is shown and skipped.
WarmupFrame(delta, key, exc) ==
    /\ pc = "run"
    /\ running
    /\ clock + delta <= MaxClock
    /\ frame_count + 1 < WarmupFrames
    /\ frame_count' = frame_count + 1
    /\ clock' = clock + delta
    /\ LET break == exc = "none" /\ key = "q"
       IN  /\ running' = IF break THEN FALSE ELSE running
           /\ cap' = IF break THEN StopCap(cap) ELSE cap
           /\ pc' = IF break \/ exc # "none" THEN "finally" ELSE "run"
    /\ exit_status' = IF exc = "Exception" THEN 1 ELSE exit_status
    /\ read_ret' = "True"
    /\ contours' = <<>>
    /\ motion_detected' = FALSE
    /\ motion_areas' = <<>>
    /\ frame_boxes' = 0
    /\ notify_called' = FALSE
    /\ notify_result' = "none"
    /\ attempt' = "none"
    /\ evidence' = "None"
    /\ message' = "none"
    /\ smtp_opened' = 0
    /\ smtp_left_open' = 0
    /\ UNCHANGED <<Config, errors, bg_frames, cameraVars,
                   last_notification_time, emit_decision_time>>

\* Lines 104-113 and 120-153: a frame is read and goes through _detect_motion;
\* `areas` are the areas of the contours found in it.  The callback is the one
\* main() installs, notifier.notify, which is given the frame read (`frame`
\* says whether it encodes); `outcome` and `dur` are the delivery's, if one is
\* attempted.
ProcessFrame(delta, areas, key, exc, frame, outcome, dur) ==
    /\ pc = "run"
    /\ running
    /\ clock + delta + dur <= MaxClock
    /\ ~(frame_count + 1 < WarmupFrames)
    /\ frame_count' = frame_count + 1
    /\ bg_frames' = bg_frames + 1
    /\ LET now == clock + delta
           staged == exc # "none"
           d == IF staged THEN NoMotion
                ELSE DetectMotion(areas, Config.MIN_CONTOUR_AREA)
           fires == ~staged /\ CallbackFires(d.motion_detected, TRUE)
           nt == IF fires
                 THEN Notify(Config, last_notification_time, now, frame, outcome, dur)
                 ELSE NotCalled(last_notification_time, now)
           raised == staged \/ nt.raised
           break == ~raised /\ key = "q"
       IN  /\ read_ret' = "True"
           /\ contours' = IF staged THEN <<>> ELSE areas
           /\ motion_detected' = d.motion_detected
           /\ motion_areas' = d.motion_areas
           /\ frame_boxes' = d.boxes
           /\ notify_called' = fires
           /\ notify_result' = nt.ret
           /\ attempt' = nt.attempt
           /\ evidence' = IF fires THEN frame ELSE "None"
           /\ message' = nt.message
           /\ smtp_opened' = nt.opened
           /\ smtp_left_open' = nt.left_open
           /\ last_notification_time' = nt.last
           /\ emit_decision_time' =
                IF nt.attempt = "ok" THEN now ELSE emit_decision_time
           /\ clock' = nt.now
           /\ running' = IF break THEN FALSE ELSE running
           /\ cap' = IF break THEN StopCap(cap) ELSE cap
           /\ pc' = IF break \/ raised THEN "finally" ELSE "run"
           /\ exit_status' = IF exc = "Exception" THEN 1 ELSE exit_status
    /\ UNCHANGED <<Config, errors, cameraVars>>

----------------------------------------------------------------------------
(* __init__.py *)

\* The errors printed, and the program going on to start the camera.
MainValidate_GoesOn ==
    /\ pc = "validate"
    /\ errors' = Validate(Config)
    /\ pc' = "start"
    /\ UNCHANGED <<Config, clock, exit_status>>
    /\ UNCHANGED <<detectorVars, notifierVars, frameVars>>

\* main, lines 11-18: validate, and sys.exit(1) outside the try block.
MainValidate ==
    /\ pc = "validate"
    /\ errors' = Validate(Config)
    /\ IF Validate(Config) # <<>>
       THEN pc' = "exited" /\ exit_status' = 1
       ELSE pc' = "start" /\ UNCHANGED exit_status
    /\ UNCHANGED <<Config, clock>>
    /\ UNCHANGED <<detectorVars, notifierVars, frameVars>>

\* main, lines 20-36: the objects are constructed, the detector without a
\* camera_index, and detector.start() runs; `opened` is cap.isOpened().  A
\* failed start is sys.exit(1) inside the try.
MainStart(opened) ==
    /\ pc = "start"
    /\ camera_index_arg = NoIndex
    /\ camera_index' = SelectCamera(camera_index_arg, Config)
    /\ device' = SelectCamera(camera_index_arg, Config)
    /\ UNCHANGED camera_index_arg
    /\ cap' = IF opened THEN "open" ELSE "unopened"
    /\ running' = opened
    /\ pc' = IF opened THEN "run" ELSE "finally"
    /\ exit_status' = IF opened THEN exit_status ELSE 1
    /\ UNCHANGED <<Config, errors, clock, frame_count, bg_frames>>
    /\ UNCHANGED <<notifierVars, frameVars>>

\* main without its finally clause.
MainFinally_NoStop ==
    /\ pc = "finally"
    /\ pc' = "exited"
    /\ exit_status' = IF exit_status = -1 THEN 0 ELSE exit_status
    /\ UNCHANGED <<Config, errors, clock>>
    /\ UNCHANGED <<detectorVars, notifierVars, frameVars>>

\* main, lines 42-43: finally: detector.stop(); then the process ends.
MainFinally ==
    /\ pc = "finally"
    /\ running' = FALSE
    /\ cap' = StopCap(cap)
    /\ pc' = "exited"
    /\ exit_status' = IF exit_status = -1 THEN 0 ELSE exit_status
    /\ UNCHANGED <<Config, errors, clock, frame_count, bg_frames, cameraVars>>
    /\ UNCHANGED <<notifierVars, frameVars>>

----------------------------------------------------------------------------
(* The program *)

AreaInputs == {<<>>, <<DefaultMinContourArea>>, <<DefaultMinContourArea + 1>>,
               <<100, 2000>>}

Keys == {"none", "q"}

Exceptions == {"none", "Exception", "KeyboardInterrupt"}

FrameDeltas == {0, 30}

\* cap.read() gives an image; the callback is never given None.
CameraFrames == Frames \ {"None"}

\* The inputs an iteration cannot read are held at one value: after a stage
\* has raised nothing else of the iteration runs, and a frame without any
\* contour has no motion to deliver.
UnreadInputsFixed(areas, key, exc, frame, outcome, dur) ==
    /\ exc # "none" => (areas = <<>> /\ key = "none")
    /\ (exc # "none" \/ areas = <<>>)
         => (frame = "encodable" /\ outcome = "ok" /\ dur = 0)

InitDetector ==
    /\ cap = "None"
    /\ running = FALSE
    /\ frame_count = 0
    /\ bg_frames = 0
    /\ camera_index = NoIndex
    /\ device = NoIndex

InitNotifier ==
    /\ last_notification_time = NoTime
    /\ notify_called = FALSE
    /\ notify_result = "none"
    /\ attempt = "none"
    /\ emit_decision_time = NoTime
    /\ evidence = "None"
    /\ message = "none"
    /\ smtp_opened = 0
    /\ smtp_left_open = 0

InitFrame ==
    /\ read_ret = "none"
    /\ contours = <<>>
    /\ motion_detected = FALSE
    /\ motion_areas = <<>>
    /\ frame_boxes = 0

Init ==
    /\ pc = "validate"
    /\ Config \in ConfigValues({DefaultMinContourArea}, {DefaultCooldownSeconds})
    /\ errors = <<>>
    /\ exit_status = -1
    /\ clock = 0
    /\ camera_index_arg = NoIndex
    /\ InitDetector
    /\ InitNotifier
    /\ InitFrame

Next ==
    \/ MainValidate
    \/ \E opened \in BOOLEAN : MainStart(opened)
    \/ \E delta \in FrameDeltas : ReadFails(delta)
    \/ \E delta \in FrameDeltas, key \in Keys, exc \in Exceptions :
            /\ frame_count < MaxFrames
            /\ WarmupFrame(delta, key, exc)
    \/ \E delta \in FrameDeltas, areas \in AreaInputs, key \in Keys,
          exc \in Exceptions, frame \in CameraFrames, outcome \in Outcomes,
          dur \in FrameDeltas :
            /\ frame_count < MaxFrames
            /\ UnreadInputsFixed(areas, key, exc, frame, outcome, dur)
            /\ ProcessFrame(delta, areas, key, exc, frame, outcome, dur)
    \/ MainFinally

Spec == Init /\ [][Next]_vars

----------------------------------------------------------------------------
(* The notification manager on its own, called at any time by any caller *)

\* A call of NotificationManager.notify(frame) at the current clock.
NotifyCall(frame, outcome, dur) ==
    /\ pc = "caller"
    /\ clock + dur <= MaxCallerClock
    /\ LET nt == Notify(Config, last_notification_time, clock, frame, outcome, dur)
       IN  /\ notify_called' = TRUE
           /\ notify_result' = nt.ret
           /\ attempt' = nt.attempt
           /\ evidence' = frame
           /\ message' = nt.message
           /\ smtp_opened' = nt.opened
           /\ smtp_left_open' = nt.left_open
           /\ last_notification_time' = nt.last
           /\ emit_decision_time' =
                IF nt.attempt = "ok" THEN clock ELSE emit_decision_time
           /\ clock' = nt.now
    /\ UNCHANGED <<pc, Config, errors, exit_status>>
    /\ UNCHANGED <<detectorVars, frameVars>>

\* A second passes between two calls.
Tick ==
    /\ pc = "caller"
    /\ clock < MaxCallerClock
    /\ clock' = clock + 1
    /\ notify_called' = FALSE
    /\ notify_result' = "none"
    /\ attempt' = "none"
    /\ evidence' = "None"
    /\ message' = "none"
    /\ smtp_opened' = 0
    /\ smtp_left_open' = 0
    /\ UNCHANGED <<pc, Config, errors, exit_status, last_notification_time,
                   emit_decision_time>>
    /\ UNCHANGED <<detectorVars, frameVars>>

SendDurations == {0, 1}

InitNotifierAlone ==
    /\ pc = "caller"
    /\ Config \in {c \in ConfigValues({DefaultMinContourArea}, {DefaultCooldownSeconds}) :
                     \A f \in CredentialFields : c[f] # ""}
    /\ errors = <<>>
    /\ exit_status = -1
    /\ clock = 0
    /\ camera_index_arg = NoIndex
    /\ InitDetector
    /\ InitNotifier
    /\ InitFrame

NotifierNext ==
    \/ \E frame \in Frames, outcome \in Outcomes, dur \in SendDurations :
            NotifyCall(frame, outcome, dur)
    \/ Tick

SpecNotifier == InitNotifierAlone /\ [][NotifierNext]_vars

----------------------------------------------------------------------------
(* The classification of _detect_motion on its own *)

AreaSeqs == UNION {[1..n -> 0..MaxArea] : n \in 0..MaxContours}

\* _detect_motion, lines 75-94, on the contours of one frame.
ClassifyFrame ==
    /\ pc = "classify"
    /\ pc' = "classified"
    /\ LET d == DetectMotion(contours, Config.MIN_CONTOUR_AREA)
       IN  /\ motion_detected' = d.motion_detected
           /\ motion_areas' = d.motion_areas
           /\ frame_boxes' = d.boxes
    /\ UNCHANGED <<Config, errors, exit_status, clock, read_ret, contours>>
    /\ UNCHANGED <<detectorVars, notifierVars>>

InitClassify ==
    /\ pc = "classify"
    /\ Config \in {c \in ConfigValues(0..MaxArea, {DefaultCooldownSeconds}) :
                     /\ c.NOTIFICATION_ENABLED /\ c.EMAIL_ENABLED
                     /\ \A f \in CredentialFields : c[f] # ""}
    /\ contours \in AreaSeqs
    /\ read_ret = "True"
    /\ motion_detected = FALSE
    /\ motion_areas = <<>>
    /\ frame_boxes = 0
    /\ errors = <<>>
    /\ exit_status = -1
    /\ clock = 0
    /\ camera_index_arg = NoIndex
    /\ InitDetector
    /\ InitNotifier

SpecClassify == InitClassify /\ [][ClassifyFrame]_vars

----------------------------------------------------------------------------
(* The construction and start of a MotionDetector on its own *)

CameraIndexes == 0..MaxCameraIndex

\* MotionDetector.__init__ called with camera_index_arg.
Construct ==
    /\ pc = "construct"
    /\ pc' = "constructed"
    /\ camera_index' = SelectCamera(camera_index_arg, Config)
    /\ cap' = "None"
    /\ frame_count' = 0
    /\ running' = FALSE
    /\ UNCHANGED <<Config, errors, exit_status, clock, bg_frames,
                   camera_index_arg, device>>
    /\ UNCHANGED <<notifierVars, frameVars>>

\* MotionDetector.start: cv2.VideoCapture(self.camera_index).
Start(opened) ==
    /\ pc = "constructed"
    /\ pc' = "started"
    /\ device' = camera_index
    /\ cap' = IF opened THEN "open" ELSE "unopened"
    /\ running' = opened
    /\ UNCHANGED <<Config, errors, exit_status, clock, frame_count, bg_frames,
                   camera_index_arg, camera_index>>
    /\ UNCHANGED <<notifierVars, frameVars>>

InitCamera ==
    /\ pc = "construct"
    /\ Config \in {c \in AllConfigValues({DefaultMinContourArea},
                                         {DefaultCooldownSeconds}, CameraIndexes) :
                     /\ c.NOTIFICATION_ENABLED /\ c.EMAIL_ENABLED
                     /\ \A f \in CredentialFields : c[f] # ""}
    /\ camera_index_arg \in {NoIndex} \cup CameraIndexes
    /\ errors = <<>>
    /\ exit_status = -1
    /\ clock = 0
    /\ InitDetector
    /\ InitNotifier
    /\ InitFrame

CameraNext ==
    \/ Construct
    \/ \E opened \in BOOLEAN : Start(opened)

SpecCamera == InitCamera /\ [][CameraNext]_vars

----------------------------------------------------------------------------
(* The 40-frame end-to-end scenario *)

\* What frame n of the scenario may hold: frames 1-30 are the warm-up frames
\* (any content), 31-35 hold no significant region, 36-38 a region of area
\* 2000, 39-40 nothing; the stream ends after frame 40.
ScenarioAreas(n) ==
    IF n <= 30 THEN AreaInputs
    ELSE IF n <= 35 THEN {<<>>, <<DefaultMinContourArea>>}
    ELSE IF n <= 38 THEN {<<2000>>}
    ELSE IF n <= 40 THEN {<<>>}
    ELSE {}

\* Consecutive frames are at most a second apart: all 40 frames fall inside
\* one cooldown window.
ScenarioDeltas == {0, 1}

ScenarioInit ==
    /\ Init
    /\ Config.NOTIFICATION_ENABLED
    /\ Config.EMAIL_ENABLED
    /\ \A f \in CredentialFields : Config[f] # ""

ScenarioNext ==
    \/ MainValidate
    \/ MainStart(TRUE)
    \/ \E delta \in ScenarioDeltas :
            /\ ScenarioAreas(frame_count + 1) # {}
            /\ WarmupFrame(delta, "none", "none")
    \/ \E delta \in ScenarioDeltas, areas \in ScenarioAreas(frame_count + 1) :
            ProcessFrame(delta, areas, "none", "none", "encodable", "ok", 0)
    \/ /\ ScenarioAreas(frame_count + 1) = {}
       /\ ReadFails(0)
    \/ MainFinally

SpecScenario == ScenarioInit /\ [][ScenarioNext]_vars

----------------------------------------------------------------------------
(* Properties *)

Enabled == Config.NOTIFICATION_ENABLED /\ Config.EMAIL_ENABLED

Cooldown == Config.NOTIFICATION_COOLDOWN_SECONDS

\* C1: cooldown spacing.  A call made while the clock is strictly less than
\* last_notification_time + cooldown attempts no delivery and leaves the
\* timestamp alone, and a successful delivery records a timestamp at least
\* cooldown seconds after the previous one.
C1_CooldownSpacing ==
    [][ /\ (/\ notify_called'
            /\ last_notification_time # NoTime
            /\ clock < last_notification_time + Cooldown)
           => (/\ attempt' = "none"
               /\ notify_result' = "False"
               /\ last_notification_time' = last_notification_time)
        /\ (attempt' = "ok" /\ last_notification_time # NoTime)
           => last_notification_time' >= last_notification_time + Cooldown
      ]_vars

\* A call was suppressed in the very second the previous delivery was recorded.
C1_Witness ==
    /\ notify_called
    /\ attempt = "none"
    /\ notify_result = "False"
    /\ last_notification_time # NoTime
    /\ clock = last_notification_time

\* C2 as stated: with a cooldown of 60, a call 59 seconds after the entry of
\* the call that emitted is suppressed, and a call 60 seconds or more after
\* that entry attempts a delivery.
C2_BoundaryFromDecision ==
    [][ (/\ notify_called'
         /\ Enabled
         /\ Cooldown = 60
         /\ emit_decision_time # NoTime)
        => /\ (clock - emit_decision_time = 59) => attempt' = "none"
           /\ (clock - emit_decision_time >= 60) => attempt' # "none"
      ]_vars

\* C2 as amended: with a cooldown of 60, a call 59 seconds (or less) after the
\* recorded last_notification_time, which is taken when the successful
\* delivery has completed, is suppressed, and a call 60 seconds or more after
\* it attempts a delivery.
C2_BoundaryFromRecord ==
    [][ (/\ notify_called'
         /\ Enabled
         /\ Cooldown = 60
         /\ last_notification_time # NoTime)
        => /\ (clock - last_notification_time <= 59)
                => (attempt' = "none" /\ notify_result' = "False")
           /\ (clock - last_notification_time >= 60) => attempt' # "none"
      ]_vars

\* A delivery was attempted, and failed at once, exactly 60 seconds after the
\* recorded timestamp, which is therefore still the old one.
C2_Witness ==
    /\ notify_called
    /\ Cooldown = 60
    /\ attempt \in FailedOutcomes
    /\ last_notification_time # NoTime
    /\ clock - last_notification_time = 60

\* C3: a delivery that fails at connect, TLS, login or send returns False and
\* leaves last_notification_time as it was; the timestamp changes only in a
\* call whose delivery succeeded and which returned True.
C3_FailureKeepsTimestamp ==
    [][ /\ attempt' \in FailedOutcomes
           => (/\ notify_result' = "False"
               /\ last_notification_time' = last_notification_time)
        /\ last_notification_time' # last_notification_time
           => (attempt' = "ok" /\ notify_result' = "True")
      ]_vars

\* A delivery failed after the cooldown of an earlier success had run out.
C3_Witness ==
    /\ attempt \in FailedOutcomes
    /\ notify_result = "False"
    /\ last_notification_time # NoTime
    /\ clock - last_notification_time > Cooldown

\* C4: none of the first 30 frames reports motion or reaches the notifier.
C4_WarmupSuppression ==
    frame_count <= 30 => (~motion_detected /\ ~notify_called)

\* C5: the regions kept are exactly those with area > minArea, in order, and
\* motion is detected iff there is one; no contour gives no motion.
C5_StrictThreshold ==
    pc = "classified" =>
        LET minArea == Config.MIN_CONTOUR_AREA
            Sig(a) == a > minArea
        IN  /\ motion_areas = SelectSeq(contours, Sig)
            /\ motion_detected <=> (\E i \in 1..Len(contours) : contours[i] > minArea)
            /\ \A i \in 1..Len(contours) :
                 /\ contours[i] = minArea =>
                      ~(\E j \in 1..Len(motion_areas) : motion_areas[j] = minArea)
                 /\ contours[i] = minArea + 1 =>
                      (\E j \in 1..Len(motion_areas) : motion_areas[j] = minArea + 1)
            /\ contours = <<>> => ~motion_detected

\* A frame with one region at the threshold and one just above it.
C5_Witness ==
    /\ pc = "classified"
    /\ contours = <<Config.MIN_CONTOUR_AREA, Config.MIN_CONTOUR_AREA + 1>>
    /\ motion_areas = <<Config.MIN_CONTOUR_AREA + 1>>
    /\ motion_detected

\* C6: a frame whose decision is detected = false does not call the notifier,
\* attempts no delivery and leaves last_notification_time unchanged.
C6_NoMotionNoAlert ==
    [][ (frame_count' = frame_count + 1 /\ ~motion_detected')
        => (/\ ~notify_called'
            /\ attempt' = "none"
            /\ notify_result' = "none"
            /\ last_notification_time' = last_notification_time)
      ]_vars

\* A processed frame with a region at the threshold, after the cooldown of an
\* earlier alert has run out.
C6_Witness ==
    /\ pc = "run"
    /\ contours # <<>>
    /\ ~motion_detected
    /\ ~notify_called
    /\ last_notification_time # NoTime
    /\ clock - last_notification_time >= Cooldown

\* C7: when the process has ended and a camera object was created by start(),
\* the camera has been released and running is false.
C7_ReleasedOnExit ==
    (pc = "exited" /\ cap # "None") => (cap = "released" /\ ~running)

\* The process ended on an exception raised while frames were processed.
C7_Witness ==
    /\ pc = "exited"
    /\ exit_status = 1
    /\ cap = "released"
    /\ ~running
    /\ frame_count >= WarmupFrames

\* C8: in the scenario a delivery succeeds on frame 36 and on no other frame,
\* and frames 37 and 38 reach the notifier and are suppressed.
C8_ScenarioOneEmit ==
    [][ frame_count' = frame_count + 1
        => /\ (attempt' = "ok") <=> (frame_count' = 36)
           /\ frame_count' \in {37, 38} => (notify_called' /\ attempt' = "none")
      ]_vars

\* C9: once validate has run, it has returned one message per empty
\* credential, each once, when notifications and email are both enabled, and
\* nothing otherwise.
C9_ValidateExhaustive ==
    pc # "validate" =>
        LET empty == {f \in CredentialFields : Config[f] = ""}
        IN  IF Enabled
            THEN /\ Len(errors) = Cardinality(empty)
                 /\ \A f \in empty :
                      Cardinality({i \in 1..Len(errors) : errors[i] = ErrorMessage(f)}) = 1
            ELSE errors = <<>>

\* All three credentials were empty and three errors were returned.
C9_Witness ==
    /\ pc = "exited"
    /\ Enabled
    /\ \A f \in CredentialFields : Config[f] = ""
    /\ Len(errors) = 3

\* C10: when validate has returned errors the process has exited with status
\* 1, no camera object exists, no frame was read and no delivery attempted.
C10_ConfigErrorFatal ==
    errors # <<>> =>
        /\ pc = "exited"
        /\ exit_status = 1
        /\ cap = "None"
        /\ ~running
        /\ frame_count = 0
        /\ bg_frames = 0
        /\ ~notify_called
        /\ attempt = "none"
        /\ last_notification_time = NoTime

\* One credential was empty and the program has exited.
C10_Witness ==
    /\ Len(errors) = 1
    /\ pc = "exited"
    /\ exit_status = 1
    /\ cap = "None"

\* C11: with notifications or email disabled, every call of notify returns
\* False as a value, attempts no delivery and leaves last_notification_time
\* unchanged, which therefore is never set.
C11_DisabledNotSent ==
    [][ (notify_called' /\ ~Enabled)
        => (/\ notify_result' = "False"
            /\ attempt' = "none"
            /\ last_notification_time' = last_notification_time
            /\ last_notification_time' = NoTime)
      ]_vars

\* A motion frame reached the notifier with email disabled.
C11_Witness ==
    /\ ~Config.EMAIL_ENABLED
    /\ Config.NOTIFICATION_ENABLED
    /\ motion_detected
    /\ notify_called
    /\ notify_result = "False"
    /\ frame_count > WarmupFrames

\* C12: when the evidence frame cannot be encoded and the call is not
\* suppressed, a delivery is still attempted, with the text and no image, and
\* if it succeeds the call returns True and records the timestamp.
C12_EncodingFailureRecovered ==
    [][ (/\ pc = "run"
         /\ notify_called'
         /\ evidence' = "unencodable"
         /\ Enabled
         /\ (last_notification_time = NoTime
             \/ clock - last_notification_time >= Cooldown))
        => /\ attempt' # "none"
           /\ message' = "text"
           /\ attempt' = "ok"
                => (notify_result' = "True" /\ last_notification_time' = clock')
      ]_vars

\* An alert whose frame could not be encoded was delivered.
C12_Witness ==
    /\ notify_called
    /\ evidence = "unencodable"
    /\ attempt = "ok"
    /\ message = "text"
    /\ notify_result = "True"
    /\ last_notification_time = clock

\* C13: in the step in which cap.read() fails, and from then on, no frame is
\* counted or applied, there is no motion decision, no notifier call and no
\* delivery, the loop is left and the camera is released.
C13_ReadFailureEndsLoop ==
    [][ read_ret' = "False"
        => /\ frame_count' = frame_count
           /\ bg_frames' = bg_frames
           /\ last_notification_time' = last_notification_time
           /\ ~motion_detected'
           /\ ~notify_called'
           /\ attempt' = "none"
           /\ pc' \in {"finally", "exited"}
           /\ cap' = "released"
           /\ ~running'
      ]_vars

\* A read failed after the warm-up and the process has ended.
C13_Witness ==
    /\ read_ret = "False"
    /\ frame_count >= WarmupFrames
    /\ pc = "exited"
    /\ cap = "released"

\* C14: the frames applied to the background model are as many as the frames
\* read.
C14_ModelSeesEveryFrame ==
    bg_frames = frame_count

\* C15: nothing is drawn into the frame that was read, so the frame the
\* callback receives is the captured one.
C15_FrameNotMutated ==
    frame_boxes = 0

\* C16: an iteration of the loop opens at most one SMTP connection; it
\* attempts a delivery only if it read a frame and found motion in it, and the
\* delivery's timestamp is taken in that iteration, before the next read; no
\* step outside the loop attempts a delivery or touches the timestamp.
C16_SynchronousPerFrame ==
    [][ /\ pc = "run"
             => /\ smtp_opened' <= 1
                /\ attempt' # "none"
                     => (/\ frame_count' = frame_count + 1
                         /\ read_ret' = "True"
                         /\ motion_detected'
                         /\ notify_called')
                /\ attempt' = "ok" => last_notification_time' = clock'
        /\ pc # "run"
             => /\ attempt' = attempt
                /\ smtp_opened' = smtp_opened
                /\ last_notification_time' = last_notification_time
      ]_vars

\* A motion frame was delivered and the loop goes on to the next read.
C16_Witness ==
    /\ pc = "run"
    /\ frame_count > WarmupFrames
    /\ motion_detected
    /\ attempt = "ok"
    /\ smtp_opened = 1
    /\ last_notification_time = clock

\* C17: the detector uses the camera_index it was given, whatever integer it
\* is, and Config.CAMERA_INDEX only when none was given.
C17_CameraSelection ==
    LET chosen == IF camera_index_arg = NoIndex
                  THEN Config.CAMERA_INDEX
                  ELSE camera_index_arg
    IN  /\ pc \in {"constructed", "started"} => camera_index = chosen
        /\ pc = "started" => device = chosen

\* C18: a motion frame read while no cooldown is running causes a delivery
\* attempt; in particular the motion frame that follows a failed attempt does,
\* however little time has passed.
C18_RetryAfterFailure ==
    [][ /\ (/\ attempt \in FailedOutcomes
            /\ frame_count' = frame_count + 1
            /\ motion_detected')
           => (notify_called' /\ attempt' # "none")
        /\ (/\ Enabled
            /\ frame_count' = frame_count + 1
            /\ motion_detected'
            /\ (last_notification_time = NoTime
                \/ clock - last_notification_time >= Cooldown))
           => (notify_called' /\ attempt' # "none")
      ]_vars

\* A delivery failed on a frame after the first processed one, no time having
\* passed since the program started and no delivery having succeeded.
C18_Witness ==
    /\ frame_count > WarmupFrames
    /\ motion_detected
    /\ attempt \in FailedOutcomes
    /\ last_notification_time = NoTime
    /\ clock = 0

\* C19: no step leaves an SMTP connection open.
C19_ConnectionsClosed ==
    smtp_left_open = 0

====
